---------------------------- MODULE Spec2Model ----------------------------
(***************************************************************************)
(* GPath: a generalised abstract file path (src/src/gpath/_gpath.py).      *)
(*                                                                         *)
(* A path is the record of the five slots of a GPath object:               *)
(*   root, drive, parent_level, parts, encoding.                           *)
(* The pure methods are operators over such records; the results of the    *)
(* methods that can return None or raise are tagged records (None, Some,   *)
(* ValueError).  A str is the tuple of its characters.  The operators are   *)
(* driven by these specifications:                                         *)
(*   Spec           common_with, subpath_from, + and `in` on pairs of      *)
(*                  paths;                                                 *)
(*   SpecPairs      ==, <, relpath_from, join, (self + other) - n and      *)
(*                  other + self.relpath_from(other) on pairs of paths (<  *)
(*                  and its == are those of the revision src/gpath.py);    *)
(*   SpecOps        the methods of one path with an int or a drive;        *)
(*   SpecText       GPath(text), str(path) and path == text;               *)
(*   SpecPartition  runs GPath.partition one input path at a time;         *)
(*   SpecReturned   + on the paths that the methods return;                *)
(*   SpecAll        the operations of Spec, SpecPairs, SpecOps and         *)
(*                  SpecPartition together.                                *)
(***************************************************************************)
EXTENDS Integers, Sequences, FiniteSets, TLC

VARIABLES
    self,            \* the receiver of the method call
    other,           \* the argument of the method call
    num,             \* the int argument n of the method call
    allow_current,   \* option of common_with() / partition()
    allow_parents,   \* option of common_with() / partition()
    op,              \* the method that produced `result`
    result,          \* what the method returned (None, Some(path)) or raised
    pc,              \* which calls are made ("idle", "pairs", "unary", "text", "returned"), or the
                     \* position inside partition(): "scan", "done"
    gpaths,          \* partition(): the input paths processed so far, in order
    partition_map,   \* partition(): the dict, as a sequence of <<key, list>> entries in dict order
    scanned          \* partition(): partition_map as it was before the final loop replaced the lists

vars == <<self, other, num, allow_current, allow_parents, op, result,
          pc, gpaths, partition_map, scanned>>

-----------------------------------------------------------------------------
(* Bounds of the model *)

\* highest parent level of an input path
MaxLevel == 1

\* highest number of named parts of an input path
MaxParts == 2

\* highest number of input paths given to partition()
MaxPaths == 3

\* the names a path component is drawn from; a str is the tuple of its characters
Names == {<<"a">>, <<"x">>}

\* the drive names; "" is no drive
Drives == {"", "C", "D"}

\* the encodings; "None" is the Python None (use the default)
Encodings == {"None", "ascii"}

\* highest number of characters of an input text
MaxText == 4

\* the int arguments: negative, zero and up to one more than the highest parent level
Ints == -1..(MaxLevel + 1)

\* the drive arguments of with_drive; "CD" has two characters
DriveArguments == Drives \union {"CD"}

\* the characters an input text is drawn from
Chars == {"a", ".", ":", "/", "\\"}

\* every input text within the bounds
Texts == UNION {[1..k -> Chars] : k \in 0..MaxText}

-----------------------------------------------------------------------------
(* Values *)

None == [tag |-> "None"]

Some(p) == [tag |-> "Some", value |-> p]

ValueError == [tag |-> "ValueError"]

Max(m, n) == IF m >= n THEN m ELSE n

Min(m, n) == IF m <= n THEN m ELSE n

\* the path with the given fields
Path(root, drive, parent_level, parts, encoding) ==
    [root |-> root, drive |-> drive, parent_level |-> parent_level, parts |-> parts,
     encoding |-> encoding]

\* tuples of names of length at most n
PartsUpTo(n) == UNION {[1..k -> Names] : k \in 0..n}

\* every valid path within the bounds
Paths ==
    {Path(r, d, l, ps, e) :
        r \in BOOLEAN, d \in Drives, l \in 0..MaxLevel, ps \in PartsUpTo(MaxParts), e \in Encodings}
    \ {Path(TRUE, d, l, ps, e) :
        d \in Drives, l \in 1..MaxLevel, ps \in PartsUpTo(MaxParts), e \in Encodings}

-----------------------------------------------------------------------------
(* GPath methods *)

\* GPath._validate: TRUE when it returns, FALSE when it raises ValueError
_validate(p) ==
    IF p.parent_level < 0 THEN FALSE
    ELSE IF p.root /\ p.parent_level # 0 THEN FALSE
    ELSE TRUE

\* GPath._tuple: the tuple of all fields, which __eq__ and __hash__ use
_tuple(p) == <<p.root, p.drive, p.parent_level, p.parts, p.encoding>>

\* GPath.__eq__ between two GPath objects
__eq__(p, q) == _tuple(p) = _tuple(q)

\* GPath.__hash__: the hash of the tuple, kept here as the tuple that is hashed
__hash__(p) == _tuple(p)

\* GPath.__bool__
__bool__(p) == p.root \/ p.drive # "" \/ p.parent_level # 0 \/ Len(p.parts) > 0

\* GPath.__len__
__len__(p) == Len(p.parts)

\* GPath.__init__ for `path` a valid GPath: the copy.  `path == ""` is decided by __eq__,
\* which parses "" with path's encoding, so it is true of every empty path; the constructor
\* then returns early and the new path has the `encoding` argument, not path's encoding
GPath_copy(path, encoding) ==
    IF ~__bool__(path)
    THEN [root |-> FALSE, drive |-> "", parent_level |-> 0, parts |-> <<>>,
          encoding |-> encoding]
    ELSE [path EXCEPT !.encoding = IF encoding = "None" THEN path.encoding ELSE encoding]

\* [part1 for part1, part2 in zip(parts1, parts2) if part1 == part2]
RECURSIVE zip_equal(_, _)
zip_equal(parts1, parts2) ==
    IF parts1 = <<>> \/ parts2 = <<>> THEN <<>>
    ELSE (IF Head(parts1) = Head(parts2) THEN <<Head(parts1)>> ELSE <<>>)
         \o zip_equal(Tail(parts1), Tail(parts2))

\* the end of common_with: common_path._parts = tuple(parts), then the allow_current filter
common_filter(slf, othr, common_path, current) ==
    IF ~current /\ ~__bool__(common_path)
       /\ (~__eq__(common_path, slf) \/ ~__eq__(common_path, othr))
    THEN None
    ELSE Some(common_path)

\* no_common_anchor without the second early return: the root flags are not compared
no_common_anchor_drive_only(slf, othr) ==
    IF slf.drive # othr.drive THEN TRUE
    ELSE FALSE

\* the two early returns of common_with: the paths are in different filesystems, or one
\* is absolute and the other is relative
no_common_anchor(slf, othr) ==
    IF slf.drive # othr.drive THEN TRUE
    ELSE IF slf.root # othr.root THEN TRUE
    ELSE FALSE

\* the candidate of common_with when the named parts are compared: a copy of self with the
\* parts that are equal position by position
common_parts(slf, othr) ==
    [GPath_copy(slf, "None") EXCEPT !.parts = zip_equal(slf.parts, othr.parts)]

\* common_parents at the lower of the two parent levels
common_parents_lower(slf, othr) ==
    [GPath_copy(slf, "None") EXCEPT
         !.parent_level = Min(slf.parent_level, othr.parent_level),
         !.parts = <<>>]

\* the candidate of common_with for two parent levels that differ: a copy of self at the
\* higher parent level, with no parts
common_parents(slf, othr) ==
    [GPath_copy(slf, "None") EXCEPT
         !.parent_level = Max(slf.parent_level, othr.parent_level),
         !.parts = <<>>]

\* GPath.common_with, for `other` a GPath
common_with(slf, othr, current, parents) ==
    IF ~_validate(slf) \/ ~_validate(othr) THEN ValueError
    ELSE IF no_common_anchor(slf, othr) THEN None
    ELSE LET cur == IF parents THEN TRUE ELSE current IN
         IF slf.root
         THEN common_filter(slf, othr, common_parts(slf, othr), cur)
         ELSE IF slf.parent_level # othr.parent_level
              THEN IF ~parents THEN None
                   ELSE common_filter(slf, othr, common_parents(slf, othr), cur)
              ELSE common_filter(slf, othr, common_parts(slf, othr), cur)

\* GPath.__contains__: `othr in slf`, for `othr` a GPath
__contains__(slf, othr) ==
    LET common_path == common_with(slf, othr, TRUE, TRUE) IN
    IF common_path = ValueError THEN ValueError
    ELSE IF common_path # None /\ __eq__(common_path.value, slf) THEN Some(TRUE)
    ELSE Some(FALSE)

\* subpath_from without the containment test `self in base`
subpath_from_uncontained(slf, base) ==
    LET common == common_with(slf, base, TRUE, FALSE) IN
    IF common = ValueError THEN ValueError
    ELSE IF common # None
    THEN LET base_length == Len(base.parts) IN
         Some([GPath_copy(slf, "None") EXCEPT
                   !.parts = SubSeq(slf.parts, base_length + 1, Len(slf.parts)),
                   !.drive = "",
                   !.root = FALSE,
                   !.parent_level = 0])
    ELSE None

\* GPath.subpath_from, for `base` a GPath
subpath_from(slf, base) ==
    LET common == common_with(slf, base, TRUE, FALSE) IN
    IF common = ValueError THEN ValueError
    ELSE IF common # None /\ __contains__(base, slf) = Some(TRUE)
    THEN LET base_length == Len(base.parts) IN
         Some([GPath_copy(slf, "None") EXCEPT
                   !.parts = SubSeq(slf.parts, base_length + 1, Len(slf.parts)),
                   !.drive = "",
                   !.root = FALSE,
                   !.parent_level = 0])
    ELSE None

\* the loop shared by __add__ and __sub__: n times, pop the last part, or climb one
\* parent level when no part is left and the path is not rooted
RECURSIVE pop_parts(_, _)
pop_parts(p, n) ==
    IF n <= 0 THEN p
    ELSE IF Len(p.parts) > 0
         THEN pop_parts([p EXCEPT !.parts = SubSeq(p.parts, 1, Len(p.parts) - 1)], n - 1)
    ELSE IF ~p.root
         THEN pop_parts([p EXCEPT !.parent_level = p.parent_level + 1], n - 1)
    ELSE pop_parts(p, n - 1)

\* __add__ where a rooted right operand replaces the drive as well
__add__whole_anchor(slf, othr) ==
    IF ~_validate(slf) THEN ValueError
    ELSE IF othr.root
    THEN Some([GPath_copy(slf, "None") EXCEPT !.parts = othr.parts,
                                              !.root = othr.root,
                                              !.parent_level = othr.parent_level,
                                              !.drive = othr.drive])
    ELSE LET popped == pop_parts(GPath_copy(slf, "None"), othr.parent_level)
             new_path == [popped EXCEPT !.parts = popped.parts \o othr.parts]
         IN  Some(IF othr.drive # "" THEN [new_path EXCEPT !.drive = othr.drive]
                  ELSE new_path)

\* __add__ where the drive of the left operand, when it has one, is kept
__add__left_drive(slf, othr) ==
    IF ~_validate(slf) THEN ValueError
    ELSE LET new_path ==
                 IF othr.root
                 THEN [GPath_copy(slf, "None") EXCEPT !.parts = othr.parts,
                                                      !.root = othr.root,
                                                      !.parent_level = othr.parent_level]
                 ELSE LET popped == pop_parts(GPath_copy(slf, "None"), othr.parent_level) IN
                      [popped EXCEPT !.parts = popped.parts \o othr.parts]
         IN  Some(IF slf.drive = "" THEN [new_path EXCEPT !.drive = othr.drive]
                  ELSE new_path)

\* GPath.__add__, for `othr` a GPath (`othr._validate` is named but not called)
__add__(slf, othr) ==
    IF ~_validate(slf) THEN ValueError
    ELSE LET new_path ==
                 IF othr.root
                 THEN [GPath_copy(slf, "None") EXCEPT !.parts = othr.parts,
                                                      !.root = othr.root,
                                                      !.parent_level = othr.parent_level]
                 ELSE LET popped == pop_parts(GPath_copy(slf, "None"), othr.parent_level) IN
                      [popped EXCEPT !.parts = popped.parts \o othr.parts]
         IN  Some(IF othr.drive # "" THEN [new_path EXCEPT !.drive = othr.drive]
                  ELSE new_path)

-----------------------------------------------------------------------------
(* GPath methods of one path *)

\* GPath.as_relative; parent_level is None or Some(int)
as_relative(slf, parent_level) ==
    LET new_path == [GPath_copy(slf, "None") EXCEPT !.root = FALSE] IN
    IF parent_level = None THEN Some(new_path)
    ELSE Some([new_path EXCEPT !.parent_level = parent_level.value])

\* GPath.as_absolute
as_absolute(slf) ==
    Some([GPath_copy(slf, "None") EXCEPT !.root = TRUE, !.parent_level = 0])

\* GPath.with_drive, for drive a str; None is turned into "" first
with_drive(slf, drive) ==
    IF Len(drive) > 1 THEN ValueError
    ELSE Some([GPath_copy(slf, "None") EXCEPT !.drive = drive])

\* GPath.without_drive
without_drive(slf) == with_drive(slf, "")

\* __sub__ without the test for a negative n
__sub__unchecked(slf, k) == Some(pop_parts(GPath_copy(slf, "None"), k))

\* GPath.__sub__
__sub__(slf, k) ==
    IF k < 0 THEN ValueError
    ELSE Some(pop_parts(GPath_copy(slf, "None"), k))

\* tuple * k
RECURSIVE repeat(_, _)
repeat(parts, k) == IF k <= 0 THEN <<>> ELSE parts \o repeat(parts, k - 1)

\* GPath.__mul__
__mul__(slf, k) ==
    IF k < 0 THEN ValueError
    ELSE Some([GPath_copy(slf, "None") EXCEPT !.parent_level = slf.parent_level * k,
                                              !.parts = repeat(slf.parts, k)])

\* GPath.__rshift__ for k >= 0
shift_right(slf, k) ==
    LET new_path == GPath_copy(slf, "None") IN
    Some(IF ~new_path.root THEN [new_path EXCEPT !.parent_level = new_path.parent_level + k]
         ELSE new_path)

\* GPath.__lshift__ for k >= 0
shift_left(slf, k) ==
    LET new_path == GPath_copy(slf, "None") IN
    Some(IF ~new_path.root
         THEN [new_path EXCEPT !.parent_level = Max(new_path.parent_level - k, 0)]
         ELSE new_path)

\* GPath.__lshift__
__lshift__(slf, k) == IF k < 0 THEN shift_right(slf, -1 * k) ELSE shift_left(slf, k)

\* GPath.__rshift__
__rshift__(slf, k) == IF k < 0 THEN shift_left(slf, -1 * k) ELSE shift_right(slf, k)

\* relpath_from without the return of None for a common base above the parent level of self
relpath_from_any_climb(slf, origin) ==
    IF ~_validate(slf) THEN ValueError
    ELSE IF origin.root
    THEN LET common == common_with(slf, origin, TRUE, FALSE) IN
         IF common = ValueError THEN ValueError
         ELSE IF common = None THEN None
         ELSE Some([GPath_copy(slf, "None") EXCEPT
                        !.parent_level = __len__(origin) - __len__(common.value),
                        !.parts = SubSeq(slf.parts, __len__(common.value) + 1, Len(slf.parts)),
                        !.drive = "",
                        !.root = FALSE])
    ELSE LET common == common_with(slf, origin, TRUE, TRUE) IN
         IF common = ValueError THEN ValueError
         ELSE IF common = None THEN None
         ELSE LET new_path == [GPath_copy(slf, "None") EXCEPT !.drive = "", !.root = FALSE] IN
              IF __len__(common.value) = 0
              THEN Some([new_path EXCEPT
                             !.parent_level =
                                 IF origin.parent_level = slf.parent_level
                                 THEN __len__(origin)
                                 ELSE (common.value.parent_level - origin.parent_level)
                                      + __len__(origin),
                             !.parts = slf.parts])
              ELSE Some([new_path EXCEPT
                             !.parent_level = __len__(origin) - __len__(common.value),
                             !.parts = SubSeq(slf.parts, __len__(common.value) + 1,
                                              Len(slf.parts))])

\* GPath.relpath_from, for origin a GPath
relpath_from(slf, origin) ==
    IF ~_validate(slf) THEN ValueError
    ELSE IF origin.root
    THEN LET common == common_with(slf, origin, TRUE, FALSE) IN
         IF common = ValueError THEN ValueError
         ELSE IF common = None THEN None
         ELSE Some([GPath_copy(slf, "None") EXCEPT
                        !.parent_level = __len__(origin) - __len__(common.value),
                        !.parts = SubSeq(slf.parts, __len__(common.value) + 1, Len(slf.parts)),
                        !.drive = "",
                        !.root = FALSE])
    ELSE LET common == common_with(slf, origin, TRUE, TRUE) IN
         IF common = ValueError THEN ValueError
         ELSE IF common = None THEN None
         ELSE IF common.value.parent_level > slf.parent_level THEN None
         ELSE LET new_path == [GPath_copy(slf, "None") EXCEPT !.drive = "", !.root = FALSE] IN
              IF __len__(common.value) = 0
              THEN Some([new_path EXCEPT
                             !.parent_level =
                                 IF origin.parent_level = slf.parent_level
                                 THEN __len__(origin)
                                 ELSE (common.value.parent_level - origin.parent_level)
                                      + __len__(origin),
                             !.parts = slf.parts])
              ELSE Some([new_path EXCEPT
                             !.parent_level = __len__(origin) - __len__(common.value),
                             !.parts = SubSeq(slf.parts, __len__(common.value) + 1,
                                              Len(slf.parts))])

\* the loop of join: combined_path + path for each path that is left
RECURSIVE join_loop(_, _)
join_loop(combined_path, paths) ==
    IF paths = <<>> THEN Some(combined_path)
    ELSE LET sum == __add__(combined_path, Head(paths)) IN
         IF sum.tag = "Some" THEN join_loop(sum.value, Tail(paths)) ELSE sum

\* GPath.join, for paths a flat list of GPaths
join(paths, encoding) ==
    IF Len(paths) = 0 THEN Some(Path(FALSE, "", 0, <<>>, encoding))
    ELSE join_loop(paths[1], Tail(paths))

-----------------------------------------------------------------------------
(* Paths from and to text: a str is the tuple of its characters, a character is a
   string of length one, and a drive is one character or "" *)

\* _rules.generic_rules
drive_postfixes == << <<":">> >>

current_indicators == << <<".">> >>

parent_indicators == << <<".", ".">> >>

roots == << <<"/">>, <<"\\">> >>

separators == << <<"/">>, <<"\\">> >>

\* the members of a list
Range(list) == {list[i] : i \in 1..Len(list)}

\* str.startswith
startswith(text, prefix) ==
    Len(text) >= Len(prefix) /\ SubSeq(text, 1, Len(prefix)) = prefix

\* the loop of _split_relative that drops a delimiter following a delimiter
RECURSIVE collapse(_, _, _)
collapse(new_path, path, delimiter) ==
    IF path = <<>> THEN new_path
    ELSE LET c == <<Head(path)>> IN
         IF c = delimiter /\ <<new_path[Len(new_path)]>> = delimiter
         THEN collapse(new_path, Tail(path), delimiter)
         ELSE collapse(new_path \o c, Tail(path), delimiter)

\* str.split on a delimiter of one character
RECURSIVE split(_, _)
split(text, delimiter) ==
    IF \A i \in 1..Len(text) : <<text[i]>> # delimiter THEN <<text>>
    ELSE LET i == CHOOSE k \in 1..Len(text) :
                      /\ <<text[k]>> = delimiter
                      /\ \A j \in 1..(k - 1) : <<text[j]>> # delimiter
         IN  <<SubSeq(text, 1, i - 1)>> \o split(SubSeq(text, i + 1, Len(text)), delimiter)

\* _split_relative with collapse=True; delimiters is a set of strs of one character, and
\* the result does not depend on which of them the iteration yields first
_split_relative(path, delimiters) ==
    IF path = <<>> THEN <<path>>
    ELSE IF delimiters = {} THEN <<path>>
    ELSE LET delimiter == CHOOSE d \in delimiters : TRUE
             replaced == [i \in 1..Len(path) |->
                             IF <<path[i]>> \in delimiters THEN delimiter[1] ELSE path[i]]
         IN  split(Tail(collapse(delimiter, replaced, delimiter)), delimiter)

\* the loop of _normalise_relative, were ".." never to remove the part before it
RECURSIVE normalise_loop_no_pop(_, _)
normalise_loop_no_pop(output, parts) ==
    IF parts = <<>> THEN output
    ELSE LET part == Head(parts) IN
         IF part = <<>> THEN normalise_loop_no_pop(output, Tail(parts))
         ELSE IF part = current_indicators[1] THEN normalise_loop_no_pop(output, Tail(parts))
         ELSE normalise_loop_no_pop(Append(output, part), Tail(parts))

\* the loop of _normalise_relative over the parts that are left, output being built
RECURSIVE normalise_loop(_, _)
normalise_loop(output, parts) ==
    IF parts = <<>> THEN output
    ELSE LET part == Head(parts) IN
         IF part = <<>> THEN normalise_loop(output, Tail(parts))
         ELSE IF part = current_indicators[1] THEN normalise_loop(output, Tail(parts))
         ELSE IF part = parent_indicators[1]
         THEN IF Len(output) > 0 /\ output[Len(output)] # parent_indicators[1]
              THEN normalise_loop(SubSeq(output, 1, Len(output) - 1), Tail(parts))
              ELSE normalise_loop(Append(output, part), Tail(parts))
         ELSE normalise_loop(Append(output, part), Tail(parts))

\* _normalise_relative
_normalise_relative(parts) == normalise_loop(<<>>, parts)

\* GPath(path, encoding) for path a str
GPath_str(path, encoding) ==
    IF path = <<>> THEN Path(FALSE, "", 0, <<>>, encoding)
    ELSE LET has_drive == Len(path) >= 2 /\ <<path[2]>> \in Range(drive_postfixes)
             drive == IF has_drive THEN path[1] ELSE ""
             driveless_path == IF has_drive THEN SubSeq(path, 3, Len(path)) ELSE path
             root == \E r \in Range(roots) : startswith(driveless_path, r)
             rootless_path == IF root THEN Tail(driveless_path) ELSE driveless_path
             parts == _normalise_relative(
                          _split_relative(rootless_path, Range(separators) \union Range(separators)))
             parent_level == CHOOSE n \in 0..Len(parts) :
                                 /\ \A i \in 1..n : parts[i] \in Range(parent_indicators)
                                 /\ n < Len(parts) => parts[n + 1] \notin Range(parent_indicators)
         IN  Path(root, drive, IF root THEN 0 ELSE parent_level,
                  SubSeq(parts, parent_level + 1, Len(parts)), encoding)

\* GPath.__eq__ for other a str: other is made a GPath with the encoding of self
__eq__str(slf, othr) == _tuple(slf) = _tuple(GPath_str(othr, slf.encoding))

\* GPath.relative_parts
relative_parts(p) ==
    [i \in 1..Max(p.parent_level, 0) |-> parent_indicators[1]] \o p.parts

\* str.join
RECURSIVE str_join(_, _)
str_join(separator, strs) ==
    IF strs = <<>> THEN <<>>
    ELSE IF Len(strs) = 1 THEN strs[1]
    ELSE strs[1] \o separator \o str_join(separator, Tail(strs))

\* GPath.__str__
__str__(p) ==
    IF __bool__(p)
    THEN IF (p.root /\ Len(p.parts) = 0) /\ p.drive = ""
         THEN roots[1]
         ELSE (IF p.drive # "" THEN <<p.drive>> \o drive_postfixes[1] ELSE <<>>)
              \o (IF p.root THEN roots[1] ELSE <<>>)
              \o str_join(separators[1], relative_parts(p))
    ELSE current_indicators[1]

-----------------------------------------------------------------------------
(* Ordering, from the revision src/gpath.py, whose _namespace is the drive here *)

\* Python's ord() of the characters in use
ord(c) ==
    CASE c = "." -> 46
      [] c = "/" -> 47
      [] c = ":" -> 58
      [] c = "C" -> 67
      [] c = "D" -> 68
      [] c = "\\" -> 92
      [] c = "a" -> 97
      [] c = "x" -> 120

\* Python's < on two bools
bool_lt(a, b) == ~a /\ b

\* Python's < on two strs
RECURSIVE str_lt(_, _)
str_lt(s, t) ==
    IF t = <<>> THEN FALSE
    ELSE IF s = <<>> THEN TRUE
    ELSE IF Head(s) # Head(t) THEN ord(Head(s)) < ord(Head(t))
    ELSE str_lt(Tail(s), Tail(t))

\* Python's < on two tuples of strs
RECURSIVE strs_lt(_, _)
strs_lt(s, t) ==
    IF t = <<>> THEN FALSE
    ELSE IF s = <<>> THEN TRUE
    ELSE IF Head(s) # Head(t) THEN str_lt(Head(s), Head(t))
    ELSE strs_lt(Tail(s), Tail(t))

\* the characters of a drive
drive_str(drive) == IF drive = "" THEN <<>> ELSE <<drive>>

\* Python's < on two tuples (bool, str, int, tuple of strs): the first items that differ decide
tuple_lt(t, u) ==
    IF t[1] # u[1] THEN bool_lt(t[1], u[1])
    ELSE IF t[2] # u[2] THEN str_lt(drive_str(t[2]), drive_str(u[2]))
    ELSE IF t[3] # u[3] THEN t[3] < u[3]
    ELSE strs_lt(t[4], u[4])

\* GPath._tuple of src/gpath.py
_tuple_of_fields(p) == <<p.root, p.drive, p.parent_level, p.parts>>

\* GPath.__eq__ of src/gpath.py, for other a GPath
__eq__of_fields(p, q) == _tuple_of_fields(p) = _tuple_of_fields(q)

\* _order with absolute paths before relative paths
_order_absolute_first(p) == <<~p.root, p.drive, p.parent_level, p.parts>>

\* GPath._order
_order(p) == <<p.root, p.drive, p.parent_level, p.parts>>

\* __lt__ with the operands exchanged
__lt__exchanged(slf, othr) == tuple_lt(_order(othr), _order(slf))

\* GPath.__lt__, for other a GPath
__lt__(slf, othr) == tuple_lt(_order(slf), _order(othr))

-----------------------------------------------------------------------------
(* GPath.partition: the dict partition_map is a sequence of entries, in dict order *)

\* the position of `key` in the dict, 0 when it is not a key; keys compare by __eq__
dict_index(map, key) ==
    IF \E i \in 1..Len(map) : __eq__(map[i].key, key)
    THEN CHOOSE i \in 1..Len(map) : __eq__(map[i].key, key)
    ELSE 0

\* map[key] = list: an existing key keeps its place and its list is replaced, a new key
\* is added at the end
dict_set(map, key, list) ==
    IF dict_index(map, key) > 0
    THEN [map EXCEPT ![dict_index(map, key)].list = list]
    ELSE Append(map, [key |-> key, list |-> list])

\* del map[key]
dict_del(map, key) ==
    SelectSeq(map, LAMBDA entry : ~__eq__(entry.key, key))

\* map[key].append(path)
dict_append(map, key, path) ==
    [map EXCEPT ![dict_index(map, key)].list = Append(@, path)]

\* new_list that puts the path in the list whatever allow_parents is
new_list_with_path(path, parents) == <<path>>

\* the list a new partition starts with
new_list(path, parents) == IF parents THEN <<>> ELSE <<path>>

\* the positions of the partitions that have a common base path with `path`
candidates(map, path, current, parents) ==
    {i \in 1..Len(map) : common_with(map[i].key, path, current, parents).tag = "Some"}

\* one iteration of `for path in gpaths[1:]`: the first partition, in dict order, that has
\* a common base path with `path` is re-keyed to that base path and takes the path; when
\* there is none, the path opens a partition.  The seed, partition_map[gpaths[0]] = ...,
\* is this iteration on the empty dict
scan_path(map, path, current, parents) ==
    LET found == candidates(map, path, current, parents) IN
    IF found = {}
    THEN dict_set(map, path, new_list(path, parents))
    ELSE LET i == CHOOSE j \in found : \A k \in found : j <= k
             partition == map[i].key
             candidate_common == common_with(partition, path, current, parents).value
             rekeyed == IF ~__eq__(candidate_common, partition)
                        THEN dict_del(dict_set(map, candidate_common, map[i].list), partition)
                        ELSE map
         IN  IF ~parents THEN dict_append(rekeyed, candidate_common, path) ELSE rekeyed

\* the final loop: every list becomes [path.subpath_from(partition) for path in path_list]
relative_lists(map) ==
    [i \in 1..Len(map) |->
        [key |-> map[i].key,
         list |-> [j \in 1..Len(map[i].list) |-> subpath_from(map[i].list[j], map[i].key)]]]

\* the loop of partition over the paths that are left
RECURSIVE scan_paths(_, _, _, _)
scan_paths(map, paths, current, parents) ==
    IF paths = <<>> THEN map
    ELSE scan_paths(scan_path(map, Head(paths), current, parents), Tail(paths),
                    current, parents)

\* GPath.partition, for a flat list of GPaths: the dict it returns
partition(paths, current, parents) ==
    relative_lists(scan_paths(<<>>, paths, current, parents))

\* the default values of allow_current and allow_parents in the signature of partition
partition_defaults == [allow_current |-> TRUE, allow_parents |-> TRUE]

\* the default values of allow_current and allow_parents in the signature of common_with
common_with_defaults == [allow_current |-> TRUE, allow_parents |-> FALSE]

\* the paths partition() is given: relative, parent-relative and absolute paths, with
\* and without a drive and an encoding, some with parts in common
PartitionInputs ==
    {Path(FALSE, "", 0, <<>>, "None"),  \* ""
     Path(FALSE, "", 0, <<<<"a">>>>, "None"),  \* "a"
     Path(FALSE, "", 0, <<<<"a">>, <<"a">>>>, "None"),  \* "a/a"
     Path(FALSE, "", 0, <<<<"a">>, <<"x">>>>, "None"),  \* "a/x"
     Path(FALSE, "", 0, <<<<"x">>, <<"a">>>>, "None"),  \* "x/a"
     Path(FALSE, "", 1, <<>>, "None"),  \* ".."
     Path(FALSE, "", 1, <<<<"a">>>>, "None"),  \* "../a"
     Path(FALSE, "", 1, <<<<"a">>, <<"x">>>>, "None"),  \* "../a/x"
     Path(TRUE, "", 0, <<>>, "None"),  \* "/"
     Path(TRUE, "", 0, <<<<"a">>>>, "None"),  \* "/a"
     Path(TRUE, "", 0, <<<<"a">>, <<"x">>>>, "None"),  \* "/a/x"
     Path(TRUE, "", 0, <<<<"x">>, <<"x">>>>, "None"),  \* "/x/x"
     Path(TRUE, "C", 0, <<<<"a">>>>, "None"),  \* "C:/a"
     Path(FALSE, "C", 0, <<<<"a">>>>, "None"),  \* "C:a"
     Path(FALSE, "", 0, <<>>, "ascii"),  \* "" with an encoding
     Path(FALSE, "", 0, <<<<"a">>>>, "ascii")}  \* "a" with an encoding

-----------------------------------------------------------------------------
(* SpecPartition: GPath.partition with the options given or left to their defaults,
   one input path at a time *)

InitPartition ==
    /\ self = Path(FALSE, "", 0, <<>>, "None")
    /\ other = self
    /\ num = 0
    /\ \/ /\ op = "partition"          \* the call gives both options
          /\ allow_current \in BOOLEAN
          /\ allow_parents \in BOOLEAN
       \/ /\ op = "partition()"        \* the call gives no option
          /\ allow_current = partition_defaults.allow_current
          /\ allow_parents = partition_defaults.allow_parents
    /\ result = None
    /\ pc = "scan"
    /\ gpaths = <<>>
    /\ partition_map = <<>>
    /\ scanned = <<>>

\* the seed and the loop over gpaths[1:]: the next input path is processed
ScanPath ==
    /\ pc = "scan"
    /\ Len(gpaths) < MaxPaths
    /\ \E path \in PartitionInputs :
        /\ gpaths' = Append(gpaths, path)
        /\ partition_map' = scan_path(partition_map, path, allow_current, allow_parents)
    /\ UNCHANGED <<self, other, num, allow_current, allow_parents, op, result, pc, scanned>>

\* the input is exhausted: the lists are made relative and the dict is returned
ReturnPartitions ==
    /\ pc = "scan"
    /\ scanned' = partition_map
    /\ partition_map' = relative_lists(partition_map)
    /\ pc' = "done"
    /\ UNCHANGED <<self, other, num, allow_current, allow_parents, op, result, gpaths>>

NextPartition ==
    \/ ScanPath
    \/ ReturnPartitions

SpecPartition == InitPartition /\ [][NextPartition]_vars

-----------------------------------------------------------------------------
(* Spec: the binary methods applied to a pair of paths *)

Init ==
    /\ self \in Paths
    /\ other \in Paths
    /\ num = 0
    /\ allow_current = TRUE
    /\ allow_parents = FALSE
    /\ op = "init"
    /\ result = None
    /\ pc = "idle"
    /\ gpaths = <<>>
    /\ partition_map = <<>>
    /\ scanned = <<>>

\* self.common_with(other, allow_current, allow_parents)
CommonWith ==
    /\ pc = "idle"
    /\ \E current \in BOOLEAN, parents \in BOOLEAN :
        /\ allow_current' = current
        /\ allow_parents' = parents
        /\ result' = common_with(self, other, current, parents)
    /\ op' = "common_with"
    /\ UNCHANGED <<self, other, num, pc, gpaths, partition_map, scanned>>

\* self.subpath_from(other)
SubpathFrom ==
    /\ pc = "idle"
    /\ result' = subpath_from(self, other)
    /\ op' = "subpath_from"
    /\ UNCHANGED <<self, other, num, allow_current, allow_parents, pc, gpaths, partition_map, scanned>>

\* other + self.subpath_from(other), once the subpath is there
AddSubpath ==
    /\ pc = "idle"
    /\ op = "subpath_from"
    /\ result.tag = "Some"
    /\ result' = __add__(other, result.value)
    /\ op' = "add_subpath"
    /\ UNCHANGED <<self, other, num, allow_current, allow_parents, pc, gpaths, partition_map, scanned>>

\* self + other
Add ==
    /\ pc = "idle"
    /\ result' = __add__(self, other)
    /\ op' = "add"
    /\ UNCHANGED <<self, other, num, allow_current, allow_parents, pc, gpaths, partition_map, scanned>>

\* other in self
Contains ==
    /\ pc = "idle"
    /\ result' = __contains__(self, other)
    /\ op' = "contains"
    /\ UNCHANGED <<self, other, num, allow_current, allow_parents, pc, gpaths, partition_map, scanned>>

Next ==
    \/ CommonWith
    \/ SubpathFrom
    \/ AddSubpath
    \/ Add
    \/ Contains

Spec == Init /\ [][Next]_vars

-----------------------------------------------------------------------------
(* SpecPairs: comparison, relpath_from and join of two paths *)

InitPairs ==
    /\ self \in Paths
    /\ other \in Paths
    /\ num = 0
    /\ allow_current = TRUE
    /\ allow_parents = FALSE
    /\ op = "init"
    /\ result = None
    /\ pc = "pairs"
    /\ gpaths = <<>>
    /\ partition_map = <<>>
    /\ scanned = <<>>

\* self == other, for other a GPath
Eq ==
    /\ pc = "pairs"
    /\ result' = Some(__eq__(self, other))
    /\ op' = "eq"
    /\ UNCHANGED <<self, other, num, allow_current, allow_parents, pc, gpaths, partition_map, scanned>>

\* self < other, for other a GPath
Lt ==
    /\ pc = "pairs"
    /\ result' = Some(__lt__(self, other))
    /\ op' = "lt"
    /\ UNCHANGED <<self, other, num, allow_current, allow_parents, pc, gpaths, partition_map, scanned>>

\* self.relpath_from(other)
RelpathFrom ==
    /\ pc = "pairs"
    /\ result' = relpath_from(self, other)
    /\ op' = "relpath_from"
    /\ UNCHANGED <<self, other, num, allow_current, allow_parents, pc, gpaths, partition_map, scanned>>

\* GPath.join(self, other)
Join ==
    /\ pc = "pairs"
    /\ result' = join(<<self, other>>, "None")
    /\ op' = "join"
    /\ UNCHANGED <<self, other, num, allow_current, allow_parents, pc, gpaths, partition_map, scanned>>

\* (self + other) - num, for other a relative path without drive and parent level and
\* num at most the number of its parts
AddSub ==
    /\ pc = "pairs"
    /\ ~other.root /\ other.drive = "" /\ other.parent_level = 0
    /\ __add__(self, other).tag = "Some"
    /\ \E k \in 0..Len(other.parts) :
           /\ num' = k
           /\ result' = __sub__(__add__(self, other).value, k)
    /\ op' = "add_sub"
    /\ UNCHANGED <<self, other, allow_current, allow_parents, pc, gpaths, partition_map, scanned>>

\* other + self.relpath_from(other), once relpath_from has returned a path
AddRelpath ==
    /\ pc = "pairs"
    /\ op = "relpath_from"
    /\ result.tag = "Some"
    /\ result' = __add__(other, result.value)
    /\ op' = "add_relpath"
    /\ UNCHANGED <<self, other, num, allow_current, allow_parents, pc, gpaths, partition_map, scanned>>

NextPairs ==
    \/ Eq
    \/ Lt
    \/ RelpathFrom
    \/ Join
    \/ AddSub
    \/ AddRelpath

SpecPairs == InitPairs /\ [][NextPairs]_vars

-----------------------------------------------------------------------------
(* SpecOps: the methods of one path, with an int or a drive as argument *)

InitOps ==
    /\ self \in Paths
    /\ other = Path(FALSE, "", 0, <<>>, "None")
    /\ num = 0
    /\ allow_current = TRUE
    /\ allow_parents = FALSE
    /\ op = "init"
    /\ result = None
    /\ pc = "unary"
    /\ gpaths = <<>>
    /\ partition_map = <<>>
    /\ scanned = <<>>

\* self.as_relative()
AsRelativeNone ==
    /\ pc = "unary"
    /\ result' = as_relative(self, None)
    /\ op' = "as_relative()"
    /\ UNCHANGED <<self, other, num, allow_current, allow_parents, pc, gpaths, partition_map, scanned>>

\* self.as_relative(num)
AsRelative ==
    /\ pc = "unary"
    /\ \E k \in Ints :
        /\ num' = k
        /\ result' = as_relative(self, Some(k))
    /\ op' = "as_relative"
    /\ UNCHANGED <<self, other, allow_current, allow_parents, pc, gpaths, partition_map, scanned>>

\* as_absolute() that sets the fields of self instead of those of a copy
AsAbsolute_in_place ==
    /\ pc = "unary"
    /\ result' = as_absolute(self)
    /\ self' = result'.value
    /\ op' = "as_absolute"
    /\ UNCHANGED <<other, num, allow_current, allow_parents, pc, gpaths, partition_map, scanned>>

\* self.as_absolute()
AsAbsolute ==
    /\ pc = "unary"
    /\ result' = as_absolute(self)
    /\ op' = "as_absolute"
    /\ UNCHANGED <<self, other, num, allow_current, allow_parents, pc, gpaths, partition_map, scanned>>

\* self.with_drive(drive)
WithDrive ==
    /\ pc = "unary"
    /\ \E drive \in DriveArguments : result' = with_drive(self, drive)
    /\ op' = "with_drive"
    /\ UNCHANGED <<self, other, num, allow_current, allow_parents, pc, gpaths, partition_map, scanned>>

\* self.without_drive()
WithoutDrive ==
    /\ pc = "unary"
    /\ result' = without_drive(self)
    /\ op' = "without_drive"
    /\ UNCHANGED <<self, other, num, allow_current, allow_parents, pc, gpaths, partition_map, scanned>>

\* self - num
Sub ==
    /\ pc = "unary"
    /\ \E k \in Ints :
        /\ num' = k
        /\ result' = __sub__(self, k)
    /\ op' = "sub"
    /\ UNCHANGED <<self, other, allow_current, allow_parents, pc, gpaths, partition_map, scanned>>

\* self * num
Mul ==
    /\ pc = "unary"
    /\ \E k \in Ints :
        /\ num' = k
        /\ result' = __mul__(self, k)
    /\ op' = "mul"
    /\ UNCHANGED <<self, other, allow_current, allow_parents, pc, gpaths, partition_map, scanned>>

\* self << num
LShift ==
    /\ pc = "unary"
    /\ \E k \in Ints :
        /\ num' = k
        /\ result' = __lshift__(self, k)
    /\ op' = "lshift"
    /\ UNCHANGED <<self, other, allow_current, allow_parents, pc, gpaths, partition_map, scanned>>

\* self >> num
RShift ==
    /\ pc = "unary"
    /\ \E k \in Ints :
        /\ num' = k
        /\ result' = __rshift__(self, k)
    /\ op' = "rshift"
    /\ UNCHANGED <<self, other, allow_current, allow_parents, pc, gpaths, partition_map, scanned>>

NextOps ==
    \/ AsRelativeNone
    \/ AsRelative
    \/ AsAbsolute
    \/ WithDrive
    \/ WithoutDrive
    \/ Sub
    \/ Mul
    \/ LShift
    \/ RShift

SpecOps == InitOps /\ [][NextOps]_vars

-----------------------------------------------------------------------------
(* SpecReturned: + on the paths that as_relative returns, which need not be valid *)

\* the input paths, and what as_relative returns for them
ReturnedPaths ==
    Paths \union {as_relative(p, Some(k)).value : p \in Paths, k \in Ints}

InitReturned ==
    /\ self \in ReturnedPaths
    /\ other \in ReturnedPaths
    /\ num = 0
    /\ allow_current = TRUE
    /\ allow_parents = FALSE
    /\ op = "init"
    /\ result = None
    /\ pc = "returned"
    /\ gpaths = <<>>
    /\ partition_map = <<>>
    /\ scanned = <<>>

\* self + other
AddReturned ==
    /\ pc = "returned"
    /\ result' = __add__(self, other)
    /\ op' = "add"
    /\ UNCHANGED <<self, other, num, allow_current, allow_parents, pc, gpaths, partition_map, scanned>>

NextReturned ==
    \/ AddReturned

SpecReturned == InitReturned /\ [][NextReturned]_vars

-----------------------------------------------------------------------------
(* SpecAll: every operation on paths, from each of the starts *)

InitAll ==
    \/ Init
    \/ InitPairs
    \/ InitOps
    \/ InitPartition

NextAll ==
    \/ Next
    \/ NextPairs
    \/ NextOps
    \/ NextPartition

SpecAll == InitAll /\ [][NextAll]_vars

-----------------------------------------------------------------------------
(* SpecText: a path made from a text, rendered, made again from the rendering, and
   compared with the text; `other` holds the text *)

\* self = GPath(encoding=e), other a str
InitText ==
    /\ self \in {Path(FALSE, "", 0, <<>>, e) : e \in Encodings}
    /\ other \in Texts
    /\ num = 0
    /\ allow_current = TRUE
    /\ allow_parents = FALSE
    /\ op = "init"
    /\ result = None
    /\ pc = "text"
    /\ gpaths = <<>>
    /\ partition_map = <<>>
    /\ scanned = <<>>

\* self = GPath(other, encoding=self.encoding)
Construct ==
    /\ pc = "text"
    /\ op = "init"
    /\ self' = GPath_str(other, self.encoding)
    /\ op' = "construct"
    /\ UNCHANGED <<other, num, allow_current, allow_parents, result, pc, gpaths, partition_map, scanned>>

\* str(self)
Str ==
    /\ pc = "text"
    /\ op = "construct"
    /\ result' = Some(__str__(self))
    /\ op' = "str"
    /\ UNCHANGED <<self, other, num, allow_current, allow_parents, pc, gpaths, partition_map, scanned>>

\* GPath(str(self)), once the rendering is there
Reconstruct ==
    /\ pc = "text"
    /\ op = "str"
    /\ result' = Some(GPath_str(result.value, "None"))
    /\ op' = "reconstruct"
    /\ UNCHANGED <<self, other, num, allow_current, allow_parents, pc, gpaths, partition_map, scanned>>

\* self == other, for other a str
EqStr ==
    /\ pc = "text"
    /\ op \in {"init", "construct"}
    /\ result' = Some(__eq__str(self, other))
    /\ op' = "eq_str"
    /\ UNCHANGED <<self, other, num, allow_current, allow_parents, pc, gpaths, partition_map, scanned>>

NextText ==
    \/ Construct
    \/ Str
    \/ Reconstruct
    \/ EqStr

SpecText == InitText /\ [][NextText]_vars

-----------------------------------------------------------------------------
(* Properties of common_with, subpath_from and +, under Spec *)

\* the longest common prefix of two tuples: the elements before the first position
\* at which they differ
RECURSIVE common_prefix(_, _)
common_prefix(s, t) ==
    IF s = <<>> \/ t = <<>> \/ Head(s) # Head(t) THEN <<>>
    ELSE <<Head(s)>> \o common_prefix(Tail(s), Tail(t))

\* the empty path of the data model: not rooted, no drive, parent level 0, no parts
is_empty(p) == ~p.root /\ p.drive = "" /\ p.parent_level = 0 /\ p.parts = <<>>

\* two results are the same: both None, or paths that are equal by ==
same_result(r1, r2) ==
    \/ r1 = None /\ r2 = None
    \/ r1.tag = "Some" /\ r2.tag = "Some" /\ __eq__(r1.value, r2.value)

\* C1: when common_with compares the named parts (a path is returned and the two paths
\* are rooted or have the same parent level), the parts of the result are the longest
\* common prefix of the parts of the two paths: nothing after the first mismatch.
C1_PartsAreLongestCommonPrefix ==
    (/\ op = "common_with"
     /\ result.tag = "Some"
     /\ (self.root \/ self.parent_level = other.parent_level))
    => result.value.parts = common_prefix(self.parts, other.parts)

\* C2: whenever self.subpath_from(other) is defined, other + self.subpath_from(other) == self.
C2_BasePlusSubpathIsPath ==
    op = "add_subpath" => (result.tag = "Some" /\ __eq__(result.value, self))

\* C7: common_with is None whenever the drives differ or the root flags differ, for
\* every value of allow_current and allow_parents.
C7_NoneAcrossDrivesAndRoots ==
    (/\ op = "common_with"
     /\ (self.drive # other.drive \/ self.root # other.root))
    => result = None

\* C7 witness: an absolute and a relative path of the same drive, under the most
\* lenient options, with no common base path.
C7_Witness ==
    /\ op = "common_with"
    /\ self.drive = other.drive
    /\ self.root /\ ~other.root
    /\ allow_current /\ allow_parents
    /\ result = None

\* C8: for two non-rooted paths of the same drive with different parent levels,
\* common_with is None when allow_parents is false; when it is true the result is the
\* path of that drive at the higher of the two parent levels with no parts, whatever
\* the parts of the two paths and whatever allow_current.
C8_DifferentParentLevels ==
    (/\ op = "common_with"
     /\ ~self.root /\ ~other.root
     /\ self.drive = other.drive
     /\ self.parent_level # other.parent_level)
    => IF allow_parents
       THEN /\ result.tag = "Some"
            /\ ~result.value.root
            /\ result.value.drive = self.drive
            /\ result.value.parent_level = Max(self.parent_level, other.parent_level)
            /\ result.value.parts = <<>>
       ELSE result = None

\* C8 witness: the receiver is at the lower parent level, both paths have parts, and
\* allow_parents is set without allow_current.
C8_Witness ==
    /\ op = "common_with"
    /\ ~self.root /\ ~other.root
    /\ self.drive = other.drive
    /\ self.parent_level < other.parent_level
    /\ self.parts # <<>> /\ other.parts # <<>>
    /\ allow_parents /\ ~allow_current
    /\ result.tag = "Some"
    /\ result.value.parent_level = other.parent_level

\* C9: with allow_current and allow_parents both false, where a candidate is computed
\* (same drive, same root flag, same parent level): a candidate that is the empty path
\* gives None, unless self and other are both the empty path, and then the empty path
\* is returned; a candidate that is not the empty path is returned unchanged.
C9_EmptyCandidateFilter ==
    (/\ op = "common_with"
     /\ ~allow_current /\ ~allow_parents
     /\ ~no_common_anchor(self, other)
     /\ self.parent_level = other.parent_level)
    => LET candidate == common_parts(self, other) IN
       IF ~is_empty(candidate) THEN result = Some(candidate)
       ELSE IF is_empty(self) /\ is_empty(other)
            THEN result.tag = "Some" /\ is_empty(result.value)
            ELSE result = None

\* C10: common_with is symmetric: self.common_with(other) and other.common_with(self),
\* under the same options, are both None or are equal paths.
C10_CommonWithSymmetric ==
    op = "common_with"
    => same_result(result, common_with(other, self, allow_current, allow_parents))

\* the tuple without its first n elements (all of them gone when n reaches its length)
drop_first(s, n) == [i \in 1..(IF Len(s) > n THEN Len(s) - n ELSE 0) |-> s[i + n]]

same_fields(p, q) ==
    /\ p.root = q.root
    /\ p.drive = q.drive
    /\ p.parent_level = q.parent_level
    /\ p.parts = q.parts

\* C18 as stated: when other is rooted, self + other has the root, drive, parent level
\* and parts of other, whatever self is.
C18_RootedRightOperandWins ==
    op = "add" /\ other.root
    => result.tag = "Some" /\ same_fields(result.value, other)

\* C18, amended: when other is rooted, self + other has the root, parent level and parts
\* of other, whatever self is; its drive is the drive of other when other has one, and
\* the drive of self when other has none.
C18_RootedRightOperandKeepsLeftDrive ==
    op = "add" /\ other.root
    => /\ result.tag = "Some"
       /\ result.value.root
       /\ result.value.parent_level = 0
       /\ result.value.parts = other.parts
       /\ other.drive # "" => result.value.drive = other.drive
       /\ other.drive = "" => result.value.drive = self.drive

\* C18 witness: a path with parts on a drive, plus a rooted path with other parts and no
\* drive, is the rooted path on the drive of the left operand.
C18_Witness ==
    /\ op = "add"
    /\ other.root /\ other.drive = "" /\ Len(other.parts) > 0
    /\ self.drive # "" /\ Len(self.parts) > 0 /\ self.parts # other.parts
    /\ result.tag = "Some"
    /\ result.value.parts = other.parts
    /\ result.value.drive = self.drive

C28_ResolversAgree ==
    op = "subpath_from" /\ result.tag = "Some"
    => /\ same_result(relpath_from(self, other), result)
       /\ ~__eq__(self, other) => subpath_from(other, self) = None

\* C30: whenever common_with returns a path, under any option values, that path contains
\* self and contains other: `self in result` and `other in result` are both true.
C30_CommonBaseContainsBoth ==
    op = "common_with" /\ result.tag = "Some"
    => /\ __contains__(result.value, self) = Some(TRUE)
       /\ __contains__(result.value, other) = Some(TRUE)

-----------------------------------------------------------------------------
(* Properties of comparison, under SpecPairs *)

\* C12: self == other is true exactly when root, drive, parent level and parts are equal,
\* whatever the two encodings are, and two equal paths have the same hash.
C12_EqualityIgnoresEncoding ==
    op = "eq"
    => /\ result = Some(same_fields(self, other))
       /\ same_fields(self, other) => __hash__(self) = __hash__(other)

\* the number of true values among three
count_true(a, b, c) == (IF a THEN 1 ELSE 0) + (IF b THEN 1 ELSE 0) + (IF c THEN 1 ELSE 0)

C23_JoinIgnoresAbsolute ==
    op = "join" /\ other.root
    => /\ result.tag = "Some"
       /\ join(<<self>>, "None").tag = "Some"
       /\ same_fields(result.value, join(<<self>>, "None").value)

\* C26: (A + S) - n == A + (S - n) for every path A, every relative path S without drive
\* and parent level, and every n from 0 to the number of parts of S; and
\* (A + S) - len(S.parts) == A.
C26_TruncationRoundTrip ==
    op = "add_sub"
    => /\ result.tag = "Some"
       /\ __sub__(other, num).tag = "Some"
       /\ __add__(self, __sub__(other, num).value).tag = "Some"
       /\ __eq__(result.value, __add__(self, __sub__(other, num).value).value)
       /\ num = Len(other.parts) => __eq__(result.value, self)

\* C27: self.relpath_from(origin) is None exactly when the drives differ, or the root
\* flags differ, or neither path is rooted and origin.parent_level > self.parent_level;
\* in every other case it returns a path.
C27_RelpathNoneExactly ==
    op = "relpath_from"
    => IF \/ self.drive # other.drive
          \/ self.root # other.root
          \/ ~self.root /\ ~other.root /\ other.parent_level > self.parent_level
       THEN result = None
       ELSE result.tag = "Some"

\* C27 witness: relpath_from has returned None for two paths on one drive, neither
\* rooted, with origin at a higher parent level than self.
C27_Witness ==
    /\ op = "relpath_from"
    /\ self.drive = other.drive
    /\ ~self.root /\ ~other.root
    /\ other.parent_level > self.parent_level
    /\ result = None

\* C29: other + self.relpath_from(other) == self whenever relpath_from returns a path.
C29_RelpathLeadsToSelf ==
    op = "add_relpath" => result.tag = "Some" /\ __eq__(result.value, self)

-----------------------------------------------------------------------------
(* Properties of the methods of one path, under SpecOps *)

\* the methods that return a path
path_methods ==
    {"as_relative()", "as_relative", "as_absolute", "with_drive", "without_drive",
     "sub", "mul", "lshift", "rshift"}

\* C16: a path that a method returns has a parent level of 0 or more, and of exactly 0
\* when it is rooted; a call that would give anything else raises an error.
C16_ReturnedPathsAreValid ==
    op \in path_methods /\ result.tag = "Some"
    => /\ result.value.parent_level >= 0
       /\ result.value.root => result.value.parent_level = 0

\* C21: self - num and self * num with num < 0 raise ValueError, whatever self is: no
\* path is returned.
C21_NegativeCountRaises ==
    op \in {"sub", "mul"} /\ num < 0 => result = ValueError

\* C21 witness: a path with parts minus a negative number has raised ValueError.
C21_Witness ==
    /\ op = "sub"
    /\ num < 0
    /\ Len(self.parts) > 0
    /\ result = ValueError

-----------------------------------------------------------------------------
(* Properties of + on returned paths, under SpecReturned *)

\* a path that is not valid: a negative parent level, or rooted with a parent level
\* other than 0
is_invalid(p) == p.parent_level < 0 \/ (p.root /\ p.parent_level # 0)

\* C22: self + other raises ValueError when self is not valid, and when other is not valid.
C22_InvalidOperandRaises ==
    op = "add" /\ (is_invalid(self) \/ is_invalid(other)) => result = ValueError

-----------------------------------------------------------------------------
(* Properties of every operation, under SpecAll *)

-----------------------------------------------------------------------------
(* Properties of paths and texts, under SpecText *)

\* C13: self == other is false for every path self and every str other.
C13_NeverEqualToStr ==
    op = "eq_str" => result = Some(FALSE)

\* C20: GPath(str(self)) has the root, drive, parent level and parts of self, for every
\* path self that the constructor makes from a text.
C20_StrRoundTrip ==
    op = "reconstruct" => same_fields(result.value, self)

\* the text that follows the drive and the root of path p in the text p was made from
rootless_text(text, p) ==
    LET driveless == IF p.drive = "" THEN text ELSE SubSeq(text, 3, Len(text))
    IN  IF p.root THEN Tail(driveless) ELSE driveless

\* what one segment does to the named parts and the parent level gathered so far
end_segment(segment, parts, level, rooted) ==
    IF segment = <<>> \/ segment = <<".">> THEN [parts |-> parts, level |-> level]
    ELSE IF segment = <<".", ".">>
    THEN IF parts # <<>> THEN [parts |-> SubSeq(parts, 1, Len(parts) - 1), level |-> level]
         ELSE IF rooted THEN [parts |-> parts, level |-> level]
         ELSE [parts |-> parts, level |-> level + 1]
    ELSE [parts |-> Append(parts, segment), level |-> level]

\* the named parts and the parent level of a text without drive and root, read one
\* character at a time: a segment ends at every separator and at the end of the text
RECURSIVE normal_form(_, _, _, _, _)
normal_form(text, segment, parts, level, rooted) ==
    IF text = <<>> THEN end_segment(segment, parts, level, rooted)
    ELSE IF Head(text) \in {"/", "\\"}
    THEN LET ended == end_segment(segment, parts, level, rooted)
         IN  normal_form(Tail(text), <<>>, ended.parts, ended.level, rooted)
    ELSE normal_form(Tail(text), Append(segment, Head(text)), parts, level, rooted)

\* C25: in the path made from a text, empty segments and "." are dropped, ".." removes
\* the named part before it if the output has one, else it adds one to parent_level if
\* the path is not rooted and does nothing if it is rooted; so no part is empty, "." or
\* "..", and a rooted path has parent_level 0.
C25_NormalisedText ==
    op = "construct"
    => LET normal == normal_form(rootless_text(other, self), <<>>, <<>>, 0, self.root)
       IN  /\ self.parts = normal.parts
           /\ self.parent_level = normal.level
           /\ \A i \in 1..Len(self.parts) :
                  self.parts[i] \notin {<<>>, <<".">>, <<".", ".">>}
           /\ self.root => self.parent_level = 0

\* C25 witness: a rooted path made from a text whose only segment is "..", which is
\* dropped.
C25_Witness ==
    /\ op = "construct"
    /\ Len(other) = 3 /\ other[2] = "." /\ other[3] = "."
    /\ self.root /\ self.parent_level = 0 /\ self.parts = <<>>

-----------------------------------------------------------------------------
(* Properties of partition, under SpecPartition *)

\* the number of members of all the partitions of the dict
RECURSIVE total_members(_)
total_members(map) ==
    IF map = <<>> THEN 0 ELSE Len(Head(map).list) + total_members(Tail(map))

\* C3: with allow_parents false, after each input path is processed and in the returned
\* dict, the lengths of the member lists add up to the number of input paths processed:
\* every path is in exactly one partition and no re-keying discards members.
C3_EveryPathInOnePartition ==
    ~allow_parents => total_members(partition_map) = Len(gpaths)

\* C4: with allow_parents false, every member of a returned partition is a path (never
\* None) and key + member is the input path the member was made from.
C4_MembersAreRelativeToKey ==
    (pc = "done" /\ ~allow_parents)
    => \A i \in 1..Len(partition_map) : \A j \in 1..Len(partition_map[i].list) :
           LET key == partition_map[i].key
               member == partition_map[i].list[j]
           IN  /\ member.tag = "Some"
               /\ same_result(__add__(key, member.value), Some(scanned[i].list[j]))

\* C5: no two partitions of the returned dict can still be merged: two distinct keys
\* have no common base path under the options partition was given.
C5_KeysHaveNoCommonBase ==
    pc = "done"
    => \A i, j \in 1..Len(partition_map) :
           i # j => common_with(partition_map[i].key, partition_map[j].key,
                                allow_current, allow_parents) = None

\* C6: with allow_parents true every member list is empty, while the paths are
\* processed and in the returned dict.
C6_ListsEmptyWithAllowParents ==
    allow_parents => \A i \in 1..Len(partition_map) : partition_map[i].list = <<>>

\* C6 witness: partition has returned, with allow_parents, two partitions made from
\* three input paths, one of them re-keyed to a base path that is none of the inputs.
C6_Witness ==
    /\ pc = "done"
    /\ allow_parents
    /\ Len(gpaths) = 3
    /\ Len(partition_map) = 2
    /\ \E i \in 1..Len(partition_map) : \A k \in 1..Len(gpaths) :
           partition_map[i].key # gpaths[k]
    /\ \A i \in 1..Len(partition_map) : partition_map[i].list = <<>>

\* C24: partition called without options returns what partition returns for the same
\* paths with allow_current true and allow_parents false, the defaults of common_with.
C24_PartitionDefaults ==
    pc = "done" /\ op = "partition()"
    => partition_map = partition(gpaths, common_with_defaults.allow_current,
                                 common_with_defaults.allow_parents)

=============================================================================
